---- MODULE Spec2Model ----
(***************************************************************************)
(* booben-async-utils: the Worker (bounded queue pool) of src/index.js and *)
(* of src/unnamed/part_000, the SelfServiceWorker of src/unnamed/part_000  *)
(* and asyncMap/asyncForEach of src/index.js, as one state machine.  A     *)
(* behaviour instantiates one of the classes or calls one of the functions *)
(* (impl) and then runs its public methods, its timer callbacks and the    *)
(* continuations of its co-routines.  JavaScript runs every handler to its *)
(* next yield without interleaving, so every action below is one handler:  *)
(* a public call with everything it runs synchronously, or the             *)
(* continuation of one co-routine after the promise it yielded settled.    *)
(***************************************************************************)
EXTENDS Integers, Sequences, FiniteSets, TLC

\* ---------------------------------------------------------------- bounds
MaxItem == 2
MaxCalls == 4
MaxQueueLength == 2
MaxWorkerThreads == 2
MaxThreads == 3
MaxSupply == 5
MaxStarts == 2
MaxLaunches == 4
MaxTimedThreads == 2
MaxTimedSupply == 2
TooLongTime == 2
WarnInterval == 2
MaxArrayLength == 3
MaxArrayThreads == 3
MaxResult == 2

\* Item values a caller may pass.  0 stands for the JavaScript values that
\* are falsy in a condition (0, '', null, undefined, false, NaN), the others
\* for truthy values; equal numbers are the same Map key.
Items == 0..MaxItem
Falsy(item) == item = 0

WorkerImpls == {"index.js", "part_000"}

VARIABLES
    impl,           \* which class definition the behaviour instantiates
    threads,        \* this._threads
    threadsActive,  \* this._threadsActive
    queueLength,    \* Worker: this._queueLength
    queue,          \* Worker: this._queue, entries [item, id]; id names the call that pushed it
    itemCallbacks,  \* Worker: this._itemCallbacks, item -> id of the promise registered (0: no entry)
    lanes,          \* Worker: co-routines of _doWork suspended at their yield: [item, id, cb]
    calls,          \* history: the addItem/processItem calls made so far, with what they returned
    futures,        \* history: the promise processItem returned in call id
    runs,           \* history: the invocation of processItemFn on the queue entry of call id
    coroutines,     \* SelfServiceWorker: the co-routines _doWork has started, in start order
    supplier,       \* SelfServiceWorker: the kind of getNextItemFn the caller passed
    supplyTotal,    \* SelfServiceWorker: the number of items getNextItemFn has to hand out
    supplied,       \* history: the number of items getNextItemFn has handed out
    invoked,        \* history: the number of processItemFn calls on each supplied item
    startCalls,     \* history: the number of start() calls made
    onError,        \* SelfServiceWorker: whether this._onError is set
    logger,         \* SelfServiceWorker: whether this._logger is set
    timers,         \* SelfServiceWorker: startWarnTimeout/warningInterval of each co-routine
    lastStep,       \* history: how the last processing step ended: [item, out, onErrorCalls]
    asyncCall       \* asyncMap/asyncForEach: the locals of the one call made, and its history

wvars == <<queueLength, queue, itemCallbacks, lanes, calls, futures, runs>>
svars == <<coroutines, supplier, supplyTotal, supplied, invoked, startCalls,
           onError, logger, timers, lastStep>>
vars == <<impl, threads, threadsActive, queueLength, queue, itemCallbacks, lanes,
          calls, futures, runs, coroutines, supplier, supplyTotal, supplied,
          invoked, startCalls, onError, logger, timers, lastStep, asyncCall>>

CallIds == 1..MaxCalls

NoFuture == [state |-> "none", err |-> "none", n |-> 0, by |-> 0]
PendingFuture == [state |-> "pending", err |-> "none", n |-> 0, by |-> 0]
QueueFullFuture == [state |-> "rejected", err |-> "Queue is full", n |-> 0, by |-> 0]
NoRun == [n |-> 0, out |-> "none"]

\* options.queueLength || 0
QueueLengthOption(options) ==
    IF options.given /\ options.queueLength # 0 THEN options.queueLength ELSE 0

\* callbacks.resolve(res) / callbacks.reject(err) of the pair registered by call cb,
\* called by the lane that ran the queue entry of call id.  A promise keeps its
\* first settlement; n counts the calls of the pair.
SettleFuture(f, out, id) ==
    IF f.n = 0
    THEN [state |-> IF out = "ok" THEN "resolved" ELSE "rejected",
          err |-> IF out = "ok" THEN "none" ELSE "thrown",
          n |-> 1, by |-> id]
    ELSE [f EXCEPT !.n = @ + 1]

\* The pool's mutable state as one record, for the operators below.
Cur == [queue |-> queue, itemCallbacks |-> itemCallbacks, lanes |-> lanes,
        futures |-> futures, runs |-> runs, threadsActive |-> threadsActive]

Commit(st) ==
    /\ queue' = st.queue
    /\ itemCallbacks' = st.itemCallbacks
    /\ lanes' = st.lanes
    /\ futures' = st.futures
    /\ runs' = st.runs
    /\ threadsActive' = st.threadsActive

\* Mutants of QueueIsFull: an off-by-one comparison, and a test that counts
\* the item a lane is processing as queued.
QueueIsFull_offByOne(q, cap) == Len(q) > cap

QueueIsFull_countsRunning(q, cap) == Len(q) + 1 >= cap

\* this._queue.length >= this._queueLength
QueueIsFull(q, cap) == Len(q) >= cap

\* The loop of _doWork's co-routine from its head to its next suspension:
\* shift the queue; a falsy value (an empty queue's undefined, or a falsy
\* item) ends the loop and decrements _threadsActive; otherwise take and
\* delete the item's callbacks and call processItemFn.  k of the calls throw
\* synchronously (caught, the callbacks rejected, the loop goes on); the next
\* returns a value or promise and the co-routine suspends on it.
RECURSIVE LaneLoop(_, _)
LaneLoop(st, k) ==
    IF st.queue = <<>>
    THEN [st EXCEPT !.threadsActive = @ - 1]
    ELSE LET e == Head(st.queue)
             cb == st.itemCallbacks[e.item]
             s1 == [st EXCEPT !.queue = Tail(@),
                              !.itemCallbacks[e.item] = 0,
                              !.runs[e.id].n = @ + 1]
         IN  IF Falsy(e.item)
             THEN [st EXCEPT !.queue = Tail(@), !.threadsActive = @ - 1]
             ELSE IF k > 0
             THEN LaneLoop([s1 EXCEPT !.runs[e.id].out = "err",
                                      !.futures[cb] = IF cb # 0
                                                      THEN SettleFuture(@, "err", e.id)
                                                      ELSE @],
                           k - 1)
             ELSE [s1 EXCEPT !.runs[e.id].out = "running",
                             !.lanes = @ \cup {[item |-> e.item, id |-> e.id, cb |-> cb]}]

\* _doWork(): count the lane, then run its co-routine to its first yield.
doWork(st, k) == LaneLoop([st EXCEPT !.threadsActive = @ + 1], k)

\* The number of processItemFn calls that have settled.
Settled == Cardinality({i \in CallIds : runs[i].out \in {"ok", "err"}})

\* History of one call: early says that no processItemFn call had settled
\* when the call was made.
CallRecord(op, item, ret) ==
    [op |-> op, item |-> item, ret |-> ret, early |-> (Settled = 0)]

\* Mutants of AddItemEffect: one starts a lane for every admitted item, one
\* pushes the item before it tests the queue's length.
AddItemEffect_alwaysStarts(st, item, id, k) ==
    IF QueueIsFull(st.queue, queueLength)
    THEN [st |-> st, ret |-> FALSE]
    ELSE [st |-> doWork([st EXCEPT !.queue = Append(@, [item |-> item, id |-> id])], k),
          ret |-> TRUE]

AddItemEffect_pushesFirst(st, item, id, k) ==
    LET s0 == [st EXCEPT !.queue = Append(@, [item |-> item, id |-> id])]
    IN  IF Len(s0.queue) > queueLength
        THEN [st |-> s0, ret |-> FALSE]
        ELSE [st |-> IF s0.threadsActive < threads THEN doWork(s0, k) ELSE s0,
              ret |-> TRUE]

\* The effect of addItem(item) on the pool, and what it returns.
AddItemEffect(st, item, id, k) ==
    IF QueueIsFull(st.queue, queueLength)
    THEN [st |-> st, ret |-> FALSE]
    ELSE LET s0 == [st EXCEPT !.queue = Append(@, [item |-> item, id |-> id])]
         IN  [st |-> IF s0.threadsActive < threads THEN doWork(s0, k) ELSE s0,
              ret |-> TRUE]

addItem(item, k) ==
    /\ impl \in WorkerImpls
    /\ Len(calls) < MaxCalls
    /\ LET id == Len(calls) + 1
           r == AddItemEffect(Cur, item, id, k)
       IN  /\ Commit(r.st)
           /\ calls' = Append(calls, CallRecord("addItem", item, r.ret))
    /\ UNCHANGED <<impl, threads, queueLength, svars, asyncCall>>

\* src/index.js: processItem calls addItem and registers the callbacks after it.
processItem_index(item, k) ==
    /\ impl = "index.js"
    /\ Len(calls) < MaxCalls
    /\ LET id == Len(calls) + 1
           r == AddItemEffect(Cur, item, id, k)
       IN  /\ IF r.ret
              THEN Commit([r.st EXCEPT !.itemCallbacks[item] = id,
                                       !.futures[id] = PendingFuture])
              ELSE Commit([r.st EXCEPT !.futures[id] = QueueFullFuture])
           /\ calls' = Append(calls, CallRecord("processItem", item, r.ret))
    /\ UNCHANGED <<impl, threads, queueLength, svars, asyncCall>>

\* src/unnamed/part_000: processItem pushes, registers the callbacks, then
\* starts a lane.
processItem_part000(item, k) ==
    /\ impl = "part_000"
    /\ Len(calls) < MaxCalls
    /\ LET id == Len(calls) + 1
       IN  IF QueueIsFull(queue, queueLength)
           THEN /\ Commit([Cur EXCEPT !.futures[id] = QueueFullFuture])
                /\ calls' = Append(calls, CallRecord("processItem", item, FALSE))
           ELSE LET s0 == [Cur EXCEPT !.queue = Append(@, [item |-> item, id |-> id]),
                                      !.itemCallbacks[item] = id,
                                      !.futures[id] = PendingFuture]
                IN  /\ Commit(IF s0.threadsActive < threads THEN doWork(s0, k) ELSE s0)
                    /\ calls' = Append(calls, CallRecord("processItem", item, TRUE))
    /\ UNCHANGED <<impl, threads, queueLength, svars, asyncCall>>

\* The promise a lane yielded settles (out = "ok": fulfilled, "err": rejected):
\* the lane calls the callbacks it took when it popped the item, then loops.
processItemFnSettles(l, out, k) ==
    /\ impl \in WorkerImpls
    /\ l \in lanes
    /\ LET s0 == [Cur EXCEPT !.lanes = @ \ {l},
                             !.runs[l.id].out = out,
                             !.futures[l.cb] = IF l.cb # 0
                                               THEN SettleFuture(@, out, l.id)
                                               ELSE @]
       IN  Commit(LaneLoop(s0, k))
    /\ UNCHANGED <<impl, threads, queueLength, calls, svars, asyncCall>>

\* No asyncMap/asyncForEach call has been made.
NoCall ==
    [outer |-> "none", array |-> <<>>, option |-> 0, itemsNum |-> 0, threads |-> 0,
     processed |-> 0, error |-> FALSE, ret |-> <<>>, workPromises |-> <<>>,
     fnCalls |-> <<>>, results |-> <<>>]

\* The Worker's fields after its constructor.
WorkerFieldsInit ==
    /\ queue = <<>>
    /\ threadsActive = 0
    /\ itemCallbacks = [i \in Items |-> 0]
    /\ lanes = {}
    /\ calls = <<>>
    /\ futures = [i \in 0..MaxCalls |-> NoFuture]
    /\ runs = [i \in CallIds |-> NoRun]

\* lastStep before any processing step has ended.
NoStep == [item |-> 0, out |-> "none", onErrorCalls |-> 0]

SelfServiceFieldsInit ==
    /\ coroutines = <<>>
    /\ supplied = 0
    /\ invoked = [i \in 1..MaxSupply |-> 0]
    /\ startCalls = 0
    /\ timers = <<>>
    /\ lastStep = NoStep

\* new Worker(processItemFn, threads, options): threads passes isNat.
WorkerInit ==
    /\ impl \in WorkerImpls
    /\ threads \in 1..MaxWorkerThreads
    /\ \E options \in [given : BOOLEAN, queueLength : 0..MaxQueueLength] :
           queueLength = QueueLengthOption(options)
    /\ WorkerFieldsInit
    /\ SelfServiceFieldsInit
    /\ asyncCall = NoCall
    /\ supplier = "none"
    /\ supplyTotal = 0
    /\ onError = FALSE
    /\ logger = FALSE

\* ------------------------------------------------------ SelfServiceWorker

\* options.threads || 1, over the default threads: 1; 0 stands for an option
\* that is absent or falsy.
ThreadsOption(options) == IF options.threads # 0 THEN options.threads ELSE 1

\* A co-routine of _doWork(threadId).  pc: "getItem" suspended on the promise
\* of _getItemFn, "process" suspended on the promise of _processItemFn,
\* "finished" returned after a falsy item, "aborted" ended by an exception.
\* decs counts its decrements of _threadsActive.
NewCoroutine(threadId) ==
    [threadId |-> threadId, pc |-> "getItem", item |-> 0, decs |-> 0]

\* The timers of a co-routine of _doWork.  phase "timeout": startWarnTimeout
\* is pending; "interval": it has fired and warningInterval repeats; "none":
\* neither is armed.  left is the time until the armed timer is due.  elapsed
\* and warned are history: the time the processing step the co-routine is
\* suspended in has taken so far (counted up to TooLongTime + 1) and whether
\* a warning was logged during it.
NewTimer == [phase |-> "timeout", left |-> TooLongTime, elapsed |-> 0, warned |-> 0]
NoTimer == [phase |-> "none", left |-> 0, elapsed |-> 0, warned |-> 0]

\* Mutant of StartLoop: launches _threads co-routines whatever _threadsActive is.
StartLoop_ignoresActive(cs, active, max) ==
    [coroutines |-> cs \o [j \in 1..max |-> NewCoroutine(j - 1)],
     threadsActive |-> active + max]

\* start(): while (_threadsActive < _threads) { _threadsActive++;
\* _doWork(_threadsActive - 1) }; each co-routine runs to its first yield,
\* the call of _getItemFn(threadId).
RECURSIVE StartLoop(_, _, _)
StartLoop(cs, active, max) ==
    IF active < max
    THEN StartLoop(Append(cs, NewCoroutine((active + 1) - 1)), active + 1, max)
    ELSE [coroutines |-> cs, threadsActive |-> active]

\* Each co-routine start() launches sets startTime and arms startWarnTimeout
\* before its first yield.
start ==
    /\ impl = "SelfServiceWorker"
    /\ startCalls < MaxStarts
    /\ LET r == StartLoop(coroutines, threadsActive, threads)
       IN  /\ Len(r.coroutines) <= MaxLaunches
           /\ coroutines' = r.coroutines
           /\ threadsActive' = r.threadsActive
           /\ timers' = timers \o [j \in 1..(Len(r.coroutines) - Len(coroutines)) |-> NewTimer]
    /\ startCalls' = startCalls + 1
    /\ UNCHANGED <<impl, threads, wvars, asyncCall, supplier, supplyTotal, supplied, invoked,
                   onError, logger, lastStep>>

\* What getNextItemFn's promise may settle with: a "drain" supplier hands out
\* its supplyTotal items and then a falsy value to every caller, and never
\* rejects; an "any" supplier may also return falsy early, or reject.
SupplierAnswers ==
    IF supplier = "drain"
    THEN IF supplied < supplyTotal THEN {"item"} ELSE {"falsy"}
    ELSE {"falsy", "reject"} \cup (IF supplied < supplyTotal THEN {"item"} ELSE {})

\* Mutant of error: never calls the onError hook.
error_withoutHook(hook, item, out) ==
    [item |-> item, out |-> out, onErrorCalls |-> 0]

\* The end of the try/catch around _processItemFn(currentItem, threadId) as
\* lastStep records it: a failure (out = "err") is caught and passed to
\* _error(threadId, item, err), which calls _onError(item, err) once if the
\* hook is set; nothing is re-thrown.
error(hook, item, out) ==
    [item |-> item, out |-> out,
     onErrorCalls |-> IF out = "err" /\ hook THEN 1 ELSE 0]

\* The loop of _doWork gets a truthy item: it is passed to _processItemFn at
\* once and the co-routine suspends on the promise returned; if the call
\* throws synchronously (sync) the catch block runs _error and the loop calls
\* _getItemFn again.
TakeItem(st, i, sync) ==
    LET item == st.supplied + 1
    IN  [st EXCEPT !.supplied = @ + 1,
                   !.invoked[item] = @ + 1,
                   !.coroutines[i].pc = IF sync THEN "getItem" ELSE "process",
                   !.coroutines[i].item = IF sync THEN 0 ELSE item,
                   !.timers[i].elapsed = 0,
                   !.timers[i].warned = 0,
                   !.lastStep = IF sync THEN error(st.onError, item, "err") ELSE @]

\* The loop gets a falsy item and ends: the co-routine clears whichever of
\* startWarnTimeout and warningInterval is set, decrements _threadsActive
\* and returns.
EndLane(st, i) ==
    [st EXCEPT !.coroutines[i].pc = "finished",
               !.coroutines[i].decs = @ + 1,
               !.timers[i] = NoTimer,
               !.threadsActive = @ - 1]

\* A rejection of _getItemFn is thrown into the co-routine at the yield,
\* outside any try block, and ends it there: nothing after the loop runs.
AbortLane(st, i) ==
    [st EXCEPT !.coroutines[i].pc = "aborted"]

\* Mutants of SelfServiceLoop: on a falsy item the first decrements and keeps
\* pulling, the second returns without decrementing; on a rejection the
\* third ends the lane through the decrement of _threadsActive.
SelfServiceLoop_keepsPulling(st, i, answer, sync) ==
    CASE answer = "item" -> TakeItem(st, i, sync)
      [] answer = "falsy" ->
           [st EXCEPT !.coroutines[i].decs = @ + 1,
                      !.timers[i] = NoTimer,
                      !.threadsActive = @ - 1]
      [] answer = "reject" -> AbortLane(st, i)

SelfServiceLoop_noDecrement(st, i, answer, sync) ==
    CASE answer = "item" -> TakeItem(st, i, sync)
      [] answer = "falsy" ->
           [st EXCEPT !.coroutines[i].pc = "finished",
                      !.coroutines[i].decs = @ + 1,
                      !.timers[i] = NoTimer]
      [] answer = "reject" -> AbortLane(st, i)

SelfServiceLoop_decrementsOnReject(st, i, answer, sync) ==
    CASE answer = "item" -> TakeItem(st, i, sync)
      [] answer = "falsy" -> EndLane(st, i)
      [] answer = "reject" ->
           [st EXCEPT !.coroutines[i].pc = "aborted",
                      !.threadsActive = @ - 1]

\* The loop of _doWork(threadId)'s co-routine i from the settlement of the
\* promise of _getItemFn to its next suspension or its end.
SelfServiceLoop(st, i, answer, sync) ==
    CASE answer = "item" -> TakeItem(st, i, sync)
      [] answer = "falsy" -> EndLane(st, i)
      [] answer = "reject" -> AbortLane(st, i)

\* The promise of _getItemFn(threadId) that co-routine i awaits settles.
getItemFnSettles(i, answer, sync) ==
    /\ impl = "SelfServiceWorker"
    /\ i \in 1..Len(coroutines)
    /\ coroutines[i].pc = "getItem"
    /\ answer \in SupplierAnswers
    /\ LET r == SelfServiceLoop([coroutines |-> coroutines, threadsActive |-> threadsActive,
                                 supplied |-> supplied, invoked |-> invoked,
                                 timers |-> timers, lastStep |-> lastStep,
                                 onError |-> onError],
                                i, answer, sync)
       IN  /\ coroutines' = r.coroutines
           /\ threadsActive' = r.threadsActive
           /\ supplied' = r.supplied
           /\ invoked' = r.invoked
           /\ timers' = r.timers
           /\ lastStep' = r.lastStep
    /\ UNCHANGED <<impl, threads, wvars, asyncCall, supplier, supplyTotal, startCalls, onError, logger>>

\* The promise of _processItemFn(currentItem, threadId) that co-routine i
\* awaits settles: a rejection is caught and reported by _error; either way
\* itemsProcessed++ and the loop calls _getItemFn again.
processItemFnSettlesSelfService(i, out) ==
    /\ impl = "SelfServiceWorker"
    /\ i \in 1..Len(coroutines)
    /\ coroutines[i].pc = "process"
    /\ out \in {"ok", "err"}
    /\ coroutines' = [coroutines EXCEPT ![i].pc = "getItem", ![i].item = 0]
    /\ lastStep' = error(onError, coroutines[i].item, out)
    /\ timers' = [timers EXCEPT ![i].elapsed = 0, ![i].warned = 0]
    /\ UNCHANGED <<impl, threads, threadsActive, wvars, asyncCall, supplier, supplyTotal,
                   supplied, invoked, startCalls, onError, logger>>

\* Some co-routine has a timer that is due.
TimerDue == \E i \in 1..Len(timers) : timers[i].phase # "none" /\ timers[i].left = 0

\* One unit of time passes with no handler running; a timer that is due
\* fires before more time passes.
Tick ==
    /\ impl = "SelfServiceWorker"
    /\ ~TimerDue
    /\ timers' = [i \in 1..Len(timers) |->
                    [timers[i] EXCEPT
                       !.left = IF timers[i].phase # "none" THEN @ - 1 ELSE @,
                       !.elapsed = IF coroutines[i].pc = "process" /\ @ <= TooLongTime
                                   THEN @ + 1 ELSE @]]
    /\ timers' # timers
    /\ UNCHANGED <<impl, threads, threadsActive, wvars, asyncCall, coroutines, supplier, supplyTotal,
                   supplied, invoked, startCalls, onError, logger, lastStep>>

\* The callback of startWarnTimeout of co-routine i runs _tooLongTime after
\* the co-routine started: it starts warningInterval and unsets
\* startWarnTimeout.
startWarnTimeoutFires(i) ==
    /\ impl = "SelfServiceWorker"
    /\ i \in 1..Len(timers)
    /\ timers[i].phase = "timeout"
    /\ timers[i].left = 0
    /\ timers' = [timers EXCEPT ![i].phase = "interval", ![i].left = WarnInterval]
    /\ UNCHANGED <<impl, threads, threadsActive, wvars, asyncCall, coroutines, supplier, supplyTotal,
                   supplied, invoked, startCalls, onError, logger, lastStep>>

\* warningInterval of co-routine i fires: _warnTooLong(threadId, startTime)
\* logs a warning if a logger is set, and the interval goes on.
warnTooLong(i) ==
    /\ impl = "SelfServiceWorker"
    /\ i \in 1..Len(timers)
    /\ timers[i].phase = "interval"
    /\ timers[i].left = 0
    /\ timers' = [timers EXCEPT
                    ![i].left = WarnInterval,
                    ![i].warned = IF logger /\ coroutines[i].pc = "process" THEN 1 ELSE @]
    /\ UNCHANGED <<impl, threads, threadsActive, wvars, asyncCall, coroutines, supplier, supplyTotal,
                   supplied, invoked, startCalls, onError, logger, lastStep>>

\* new SelfServiceWorker(processItemFn, getNextItemFn, options)
SelfServiceInit ==
    /\ impl = "SelfServiceWorker"
    /\ \E options \in [threads : 0..MaxThreads, onError : BOOLEAN, logger : BOOLEAN] :
           /\ threads = ThreadsOption(options)
           /\ onError = options.onError
           /\ logger = options.logger
    /\ queueLength = 0
    /\ WorkerFieldsInit
    /\ SelfServiceFieldsInit
    /\ asyncCall = NoCall
    /\ supplier \in {"drain", "any"}
    /\ supplyTotal \in 0..MaxSupply

\* ------------------------------------------------ asyncMap, asyncForEach

\* asyncCall holds the locals of the call: array, itemsNum, threads,
\* processed, error, ret (0: an empty slot), and workPromises, the co-routines
\* of doWork: pc "fn" suspended on the promise of fn(array[i]), "done"
\* returned, "failed" ended by a rejection of fn.  outer is the promise the
\* call returned.  option is options.threads as passed.  fnCalls and results
\* are history: the number of fn calls made for each index and what the
\* promise of fn resolved with (0: not resolved).  Index i of the code is
\* position i + 1 here.
ArrayImpls == {"asyncMap", "asyncForEach"}
Arrays == UNION {[1..n -> Items] : n \in 0..MaxArrayLength}
Results == 1..MaxResult

\* Math.min(itemsNum, options.threads), over the default threads: 1.
\* options.given tells whether the caller passed the key.
ArrayThreads(itemsNum, options) ==
    LET t == IF options.given THEN options.threads ELSE 1
    IN  IF itemsNum < t THEN itemsNum ELSE t

\* doWork's loop in co-routine j up to its next yield or its end:
\* while (processed < itemsNum) { if (error) break; const i = processed;
\* processed++; ... yield fn(array[i]) }
doWorkLoop(c, j) ==
    IF c.processed < c.itemsNum /\ ~c.error
    THEN [c EXCEPT !.processed = @ + 1,
                   !.fnCalls[c.processed + 1] = @ + 1,
                   !.workPromises[j] = [pc |-> "fn", i |-> c.processed]]
    ELSE [c EXCEPT !.workPromises[j] = [pc |-> "done", i |-> 0]]

\* for (let j = 0; j < threads; j++) workPromises.push(doWork()): every
\* doWork() runs to its first yield before the next one is started.
RECURSIVE LaunchWorkers(_, _)
LaunchWorkers(c, j) ==
    IF j < c.threads
    THEN LaunchWorkers(doWorkLoop([c EXCEPT !.workPromises =
                                       Append(@, [pc |-> "done", i |-> 0])], j + 1),
                       j + 1)
    ELSE c

\* The synchronous part of asyncMap(array, fn, options) and of
\* asyncForEach(array, fn, options), up to `yield workPromises`.
ArrayCall(array, options) ==
    LaunchWorkers([outer |-> "pending",
                   array |-> array,
                   option |-> IF options.given THEN options.threads ELSE 1,
                   itemsNum |-> Len(array),
                   threads |-> ArrayThreads(Len(array), options),
                   processed |-> 0,
                   error |-> FALSE,
                   ret |-> [i \in 1..Len(array) |-> 0],
                   workPromises |-> <<>>,
                   fnCalls |-> [i \in 1..Len(array) |-> 0],
                   results |-> [i \in 1..Len(array) |-> 0]], 0)

asyncMap(array, options) ==
    /\ impl = "asyncMap"
    /\ asyncCall.outer = "none"
    /\ asyncCall' = ArrayCall(array, options)
    /\ UNCHANGED <<impl, threads, threadsActive, wvars, svars>>

asyncForEach(array, options) ==
    /\ impl = "asyncForEach"
    /\ asyncCall.outer = "none"
    /\ asyncCall' = ArrayCall(array, options)
    /\ UNCHANGED <<impl, threads, threadsActive, wvars, svars>>

\* asyncMap: ret[i] = yield fn(array[i]); asyncForEach drops the value.
StoreResult(c, i, res) ==
    IF impl = "asyncMap" THEN [c EXCEPT !.ret[i + 1] = res] ELSE c

\* The promise of fn(array[i]) that co-routine j of doWork awaits settles:
\* resolved with res, the value is stored and the loop goes on; rejected,
\* the co-routine ends and its promise rejects.
fnSettles(j, out, res) ==
    /\ impl \in ArrayImpls
    /\ j \in 1..Len(asyncCall.workPromises)
    /\ asyncCall.workPromises[j].pc = "fn"
    /\ LET i == asyncCall.workPromises[j].i
       IN  asyncCall' =
               IF out = "ok"
               THEN doWorkLoop([StoreResult(asyncCall, i, res) EXCEPT !.results[i + 1] = res], j)
               ELSE [asyncCall EXCEPT !.workPromises[j].pc = "failed"]
    /\ UNCHANGED <<impl, threads, threadsActive, wvars, svars>>

\* `yield workPromises` settles and the outer co-routine resumes: when every
\* doWork() has returned the call returns (asyncMap: ret); when one of them
\* has failed the catch block sets error and re-throws.
workPromisesSettle ==
    /\ impl \in ArrayImpls
    /\ asyncCall.outer = "pending"
    /\ LET ps == asyncCall.workPromises
       IN  \/ /\ \A j \in 1..Len(ps) : ps[j].pc = "done"
              /\ asyncCall' = [asyncCall EXCEPT !.outer = "resolved"]
           \/ /\ \E j \in 1..Len(ps) : ps[j].pc = "failed"
              /\ asyncCall' = [asyncCall EXCEPT !.outer = "rejected", !.error = TRUE]
    /\ UNCHANGED <<impl, threads, threadsActive, wvars, svars>>

\* Before the call of asyncMap or asyncForEach.
ArrayInit ==
    /\ impl \in ArrayImpls
    /\ threads = 1
    /\ queueLength = 0
    /\ WorkerFieldsInit
    /\ SelfServiceFieldsInit
    /\ asyncCall = NoCall
    /\ supplier = "none"
    /\ supplyTotal = 0
    /\ onError = FALSE
    /\ logger = FALSE

ArrayNext ==
    \/ \E array \in Arrays, options \in [given : BOOLEAN, threads : 0..MaxArrayThreads] :
           asyncMap(array, options)
    \/ \E array \in Arrays, options \in [given : BOOLEAN, threads : 0..MaxArrayThreads] :
           asyncForEach(array, options)
    \/ \E j \in 1..Len(asyncCall.workPromises), out \in {"ok", "err"}, res \in Results :
           fnSettles(j, out, res)
    \/ workPromisesSettle

ArraySpec == ArrayInit /\ [][ArrayNext]_vars

\* -------------------------------------------------------- specifications

WorkerNext ==
    \/ \E item \in Items, k \in 0..MaxQueueLength : addItem(item, k)
    \/ \E item \in Items, k \in 0..MaxQueueLength : processItem_index(item, k)
    \/ \E item \in Items, k \in 0..MaxQueueLength : processItem_part000(item, k)
    \/ \E l \in lanes, out \in {"ok", "err"}, k \in 0..MaxQueueLength :
           processItemFnSettles(l, out, k)

SelfServiceNext ==
    \/ start
    \/ \E i \in 1..Len(coroutines), answer \in {"item", "falsy", "reject"}, sync \in BOOLEAN :
           getItemFnSettles(i, answer, sync)
    \/ \E i \in 1..Len(coroutines), out \in {"ok", "err"} :
           processItemFnSettlesSelfService(i, out)

Init == WorkerInit \/ SelfServiceInit

Next == WorkerNext \/ SelfServiceNext

Spec == Init /\ [][Next]_vars

WorkerSpec == WorkerInit /\ [][WorkerNext]_vars

SelfServiceSpec == SelfServiceInit /\ [][SelfServiceNext]_vars

\* The SelfServiceWorker with the passage of time and its timer callbacks.
TimedNext ==
    \/ SelfServiceNext
    \/ Tick
    \/ \E i \in 1..Len(timers) : startWarnTimeoutFires(i)
    \/ \E i \in 1..Len(timers) : warnTooLong(i)

\* new SelfServiceWorker(processItemFn, getNextItemFn, options), with fewer
\* lanes and items.
TimedInit ==
    /\ impl = "SelfServiceWorker"
    /\ \E options \in [threads : 0..MaxTimedThreads, onError : BOOLEAN, logger : BOOLEAN] :
           /\ threads = ThreadsOption(options)
           /\ onError = options.onError
           /\ logger = options.logger
    /\ queueLength = 0
    /\ WorkerFieldsInit
    /\ SelfServiceFieldsInit
    /\ asyncCall = NoCall
    /\ supplier = "any"
    /\ supplyTotal \in 0..MaxTimedSupply

TimedSpec == TimedInit /\ [][TimedNext]_vars

\* Every promise a co-routine awaits settles.
SelfServiceFair ==
    /\ SelfServiceInit
    /\ [][SelfServiceNext]_vars
    /\ \A i \in 1..MaxLaunches :
           /\ WF_vars(\E answer \in {"item", "falsy", "reject"}, sync \in BOOLEAN :
                          getItemFnSettles(i, answer, sync))
           /\ WF_vars(\E out \in {"ok", "err"} : processItemFnSettlesSelfService(i, out))

\* ----------------------------------------------------------------- claims

IsWorker == impl \in WorkerImpls
IsSelfService == impl = "SelfServiceWorker"
LastCall == calls[Len(calls)]
Admitted(id) == id \in 1..Len(calls) /\ calls[id].ret
Submitted(id) == Admitted(id) /\ calls[id].op = "processItem"
Running == {i \in 1..Len(coroutines) : coroutines[i].pc \in {"getItem", "process"}}
AllFinished == \A i \in 1..Len(coroutines) : coroutines[i].pc = "finished"

\* C1: the promise of every admitted processItem call settles exactly once,
\* with the outcome of exactly one processItemFn call on that item: its pair
\* is never called twice, the call that settled it ran an entry holding the
\* same item and ended as the promise did, and once no lane is left the
\* promise has settled.
C1_SubmitSettlesExactlyOnce ==
    IsWorker =>
        \A id \in 1..Len(calls) :
            Submitted(id) =>
                /\ futures[id].n <= 1
                /\ futures[id].n = 1 =>
                       /\ calls[futures[id].by].item = calls[id].item
                       /\ runs[futures[id].by].n = 1
                       /\ runs[futures[id].by].out =
                              (IF futures[id].state = "resolved" THEN "ok" ELSE "err")
                /\ threadsActive = 0 => futures[id].n = 1

\* C2: the queue never holds more than queueLength items, and an addItem
\* call made while the queue holds exactly queueLength items returns false.
C2_QueueBounded ==
    /\ [](IsWorker => Len(queue) <= queueLength)
    /\ [][(/\ IsWorker
           /\ Len(calls') = Len(calls) + 1
           /\ LastCall'.op = "addItem"
           /\ Len(queue) = queueLength)
          => (LastCall'.ret = FALSE /\ Len(queue') = Len(queue))]_vars

C2_Witness ==
    /\ IsWorker
    /\ queueLength = MaxQueueLength
    /\ Len(queue) = queueLength
    /\ Len(calls) >= 1
    /\ LastCall.op = "addItem"
    /\ LastCall.ret = FALSE

\* C3: whenever the queue is non-empty, at least one lane is active.
C3_NoStrandedItems == IsWorker => (queue # <<>> => threadsActive > 0)

\* C4: in both pools 0 <= _threadsActive <= _threads in every state.
C4_ActiveLanesBounded == 0 <= threadsActive /\ threadsActive <= threads

C4_Witness ==
    /\ IsSelfService
    /\ startCalls = 2
    /\ threadsActive = threads
    /\ threads > 1
    /\ \E i \in 1..Len(coroutines) : coroutines[i].pc = "finished"

\* The scenario of C5: queueLength 2, one lane, and the first three calls are
\* addItem calls made before any processItemFn call has settled.
C5_Scenario ==
    /\ IsWorker
    /\ queueLength = 2
    /\ threads = 1
    /\ Len(calls) >= 3
    /\ \A i \in 1..3 : calls[i].op = "addItem" /\ calls[i].early

\* C5 as stated: in the scenario the third addItem call returns false.
C5_ThirdReturnsFalse == C5_Scenario => calls[3].ret = FALSE

\* C5 as amended: in the scenario all three addItem calls return true (the
\* lane the first call starts shifts its item off the queue within that
\* call), and a fourth addItem call made once the queue is empty and the lane
\* has ended returns true.
C5_ThirdReturnsTrue ==
    /\ [](C5_Scenario => \A i \in 1..3 : calls[i].ret = TRUE)
    /\ [][(/\ C5_Scenario
           /\ Len(calls) = 3
           /\ queue = <<>>
           /\ threadsActive = 0
           /\ Len(calls') = 4
           /\ LastCall'.op = "addItem")
          => LastCall'.ret = TRUE]_vars

C5_Witness ==
    /\ C5_Scenario
    /\ \A i \in 1..3 : calls[i].ret /\ ~Falsy(calls[i].item) /\ runs[i].out = "ok"
    /\ Len(calls) = 4
    /\ calls[4].op = "addItem"
    /\ calls[4].ret
    /\ runs[4].out = "running"

\* C6: a call made while the queue is full changes nothing: addItem returns
\* false, processItem returns a promise already rejected with 'Queue is
\* full', and the queue, _threadsActive, the callbacks map and the lanes are
\* as before.
C6_RejectionHasNoEffect ==
    [][(/\ IsWorker
        /\ Len(calls') = Len(calls) + 1
        /\ Len(queue) >= queueLength)
       => (/\ LastCall'.ret = FALSE
           /\ UNCHANGED <<queue, threadsActive, itemCallbacks, lanes, runs>>
           /\ \A id \in 1..Len(calls) : futures'[id] = futures[id]
           /\ futures'[Len(calls')] =
                  (IF LastCall'.op = "processItem" THEN QueueFullFuture ELSE NoFuture))]_vars

C6_Witness ==
    /\ IsWorker
    /\ queueLength = MaxQueueLength
    /\ Len(queue) = queueLength
    /\ Len(calls) >= 1
    /\ LastCall.op = "processItem"
    /\ LastCall.ret = FALSE
    /\ futures[Len(calls)] = QueueFullFuture

\* C7: when processItemFn fails on the entry of an admitted processItem call,
\* that call's promise is rejected by that failure, and a promise is only
\* ever rejected by the failure of its own entry.
C7_FailureRejectsOwnFuture ==
    IsWorker =>
        \A id \in 1..Len(calls) :
            /\ (Submitted(id) /\ runs[id].out = "err") =>
                   (futures[id].state = "rejected" /\ futures[id].by = id)
            /\ (Submitted(id) /\ futures[id].state = "rejected") =>
                   futures[id].by = id

\* C8: start() launches exactly _threads - _threadsActive co-routines, leaves
\* the others as they are and _threadsActive at _threads; with _threadsActive
\* = _threads it launches none; and never more than _threads co-routines run.
C8_StartFillsUp ==
    /\ [](IsSelfService => Cardinality(Running) <= threads)
    /\ [][(IsSelfService /\ startCalls' = startCalls + 1)
          => (/\ Len(coroutines') = Len(coroutines) + (threads - threadsActive)
              /\ SubSeq(coroutines', 1, Len(coroutines)) = coroutines
              /\ \A i \in (Len(coroutines) + 1)..Len(coroutines') :
                     coroutines'[i].pc = "getItem"
              /\ threadsActive' = threads
              /\ threadsActive = threads => UNCHANGED <<coroutines, threadsActive>>)]_vars

C8_Witness ==
    /\ IsSelfService
    /\ threads = MaxThreads
    /\ startCalls = 2
    /\ Len(coroutines) = threads + 1
    /\ Cardinality(Running) = threads

\* C9: a co-routine that received a falsy item has decremented _threadsActive
\* exactly once, in that step, and never changes again (no further
\* _getItemFn or _processItemFn call); co-routines only appear in start().
C9_FinishedLaneStaysFinished ==
    /\ [](IsSelfService =>
            \A i \in 1..Len(coroutines) :
                coroutines[i].decs = (IF coroutines[i].pc = "finished" THEN 1 ELSE 0))
    /\ [][IsSelfService =>
            /\ \A i \in 1..Len(coroutines) :
                   /\ coroutines[i].pc = "finished" => coroutines'[i] = coroutines[i]
                   /\ (coroutines[i].pc # "finished" /\ coroutines'[i].pc = "finished")
                          => (/\ coroutines[i].pc = "getItem"
                              /\ threadsActive' = threadsActive - 1)
            /\ Len(coroutines') > Len(coroutines) => startCalls' = startCalls + 1]_vars

C9_Witness ==
    /\ IsSelfService
    /\ \E i, j \in 1..Len(coroutines) :
           /\ coroutines[i].pc = "finished"
           /\ coroutines[i].decs = 1
           /\ coroutines[j].pc = "process"
    /\ threadsActive = threads - 1

\* The scenario of C10: three lanes and a supplier that hands out five items
\* and then a falsy value to every lane.
C10_Scenario ==
    /\ IsSelfService
    /\ threads = 3
    /\ supplier = "drain"
    /\ supplyTotal = 5

\* C10: in the scenario no item is passed to _processItemFn twice; when every
\* co-routine has finished each of the five items was passed to it once and
\* _threadsActive is 0; and that state is reached after every start().
C10_FiveItemsThenIdle ==
    /\ [](C10_Scenario =>
            /\ \A item \in 1..5 : invoked[item] <= 1
            /\ supplied <= 5
            /\ (startCalls >= 1 /\ AllFinished) =>
                   /\ \A item \in 1..5 : invoked[item] = 1
                   /\ supplied = 5
                   /\ threadsActive = 0)
    /\ ((C10_Scenario /\ startCalls >= 1)
            ~> (AllFinished /\ threadsActive = 0 /\ supplied = 5))

C10_Witness ==
    /\ C10_Scenario
    /\ startCalls = 1
    /\ Len(coroutines) = 3
    /\ AllFinished
    /\ threadsActive = 0
    /\ \A item \in 1..5 : invoked[item] = 1

\* C11: when a processing step fails, in the same handler _onError is called
\* exactly once with the failing item if the hook is set and not at all
\* otherwise, _threadsActive is unchanged, and the co-routine that processed
\* the item is suspended on its next _getItemFn call; no other co-routine
\* changes and the item was passed to _processItemFn once.
C11_FailureIsIsolated ==
    [][(IsSelfService /\ lastStep' # lastStep /\ lastStep'.out = "err") =>
         /\ lastStep'.onErrorCalls = (IF onError THEN 1 ELSE 0)
         /\ invoked'[lastStep'.item] = 1
         /\ threadsActive' = threadsActive
         /\ Len(coroutines') = Len(coroutines)
         /\ \E i \in 1..Len(coroutines) :
                /\ \/ coroutines[i].pc = "process" /\ coroutines[i].item = lastStep'.item
                   \/ /\ coroutines[i].pc = "getItem"
                      /\ supplied' = supplied + 1
                      /\ lastStep'.item = supplied'
                /\ coroutines'[i].pc = "getItem"
                /\ \A j \in 1..Len(coroutines) : j # i => coroutines'[j] = coroutines[j]]_vars

C11_Witness ==
    /\ IsSelfService
    /\ onError
    /\ threads = 1
    /\ lastStep.out = "err"
    /\ lastStep.onErrorCalls = 1
    /\ coroutines[1].pc = "process"
    /\ coroutines[1].item = lastStep.item + 1
    /\ threadsActive = 1

\* C12: with a logger set, a processing step that ends after more than
\* TooLongTime had a warning logged during it, and a processing step that ends
\* before TooLongTime has passed since it began had none.
C12_WarningsFollowTheStep ==
    [][(IsSelfService /\ logger) =>
         \A i \in 1..Len(coroutines) :
             (coroutines[i].pc = "process" /\ coroutines'[i].pc # "process") =>
                 /\ timers[i].elapsed > TooLongTime => timers[i].warned >= 1
                 /\ timers[i].elapsed < TooLongTime => timers[i].warned = 0]_vars

\* C13: items are dequeued in admission order: whenever processItemFn has been
\* called on the entry of an admitted call, it has been called on the entry
\* of every admitted call made before it.
C13_FifoOrder ==
    IsWorker =>
        \A a, b \in 1..Len(calls) :
            (a < b /\ Admitted(a) /\ Admitted(b) /\ runs[b].n >= 1) => runs[a].n >= 1

\* The promise of call id is orphaned: it has not settled and neither the
\* callbacks map nor a lane holds its pair any more.
Orphaned(id) ==
    /\ futures[id].n = 0
    /\ futures[id].state = "pending"
    /\ itemCallbacks[calls[id].item] # id
    /\ \A l \in lanes : l.cb # id

\* Call id's entry is in the queue and the callbacks map holds its pair.
QueuedWithCallbacks(id) ==
    /\ \E n \in 1..Len(queue) : queue[n].id = id
    /\ itemCallbacks[calls[id].item] = id

\* C14: when processItem admits an item equal to one whose entry is still
\* queued with its callbacks registered, the new registration replaces the
\* old one and the earlier promise is orphaned; an orphaned promise stays
\* orphaned, whatever is called on the two entries afterwards.
C14_DuplicateOrphansFirst ==
    [][IsWorker =>
         \A id \in 1..Len(calls) :
             /\ (/\ Len(calls') = Len(calls) + 1
                 /\ LastCall'.op = "processItem"
                 /\ LastCall'.ret
                 /\ LastCall'.item = calls[id].item
                 /\ QueuedWithCallbacks(id))
                => Orphaned(id)'
             /\ Orphaned(id) => Orphaned(id)']_vars

C14_Witness ==
    /\ IsWorker
    /\ \E i, j \in 1..Len(calls) :
           /\ i < j
           /\ Submitted(i)
           /\ Submitted(j)
           /\ calls[i].item = calls[j].item
           /\ runs[i].out \in {"ok", "err"}
           /\ runs[j].out \in {"ok", "err"}
           /\ futures[j].by = i
           /\ Orphaned(i)

Aborted == {i \in 1..Len(coroutines) : coroutines[i].pc = "aborted"}

\* C15: a co-routine ended by a rejection of _getItemFn leaves _threadsActive
\* as it was and never changes again, so _threadsActive keeps counting it:
\* with k co-routines aborted, _threadsActive is k more than the number of
\* running co-routines, at most _threads - k co-routines run, and start()
\* launches only _threads - _threadsActive co-routines, none for the aborted.
C15_SupplierFailureLeaksLane ==
    /\ [](IsSelfService =>
            /\ threadsActive = Cardinality(Running) + Cardinality(Aborted)
            /\ Cardinality(Running) <= threads - Cardinality(Aborted))
    /\ [][IsSelfService =>
            /\ \A i \in 1..Len(coroutines) :
                   /\ coroutines[i].pc = "aborted" => coroutines'[i] = coroutines[i]
                   /\ (coroutines[i].pc # "aborted" /\ coroutines'[i].pc = "aborted")
                          => (/\ coroutines[i].pc = "getItem"
                              /\ threadsActive' = threadsActive)
            /\ startCalls' = startCalls + 1
                   => Len(coroutines') - Len(coroutines)
                          = threads - Cardinality(Running) - Cardinality(Aborted)]_vars

C15_Witness ==
    /\ IsSelfService
    /\ startCalls = 2
    /\ Cardinality(Aborted) >= 1
    /\ Len(coroutines) > threads
    /\ Cardinality(Running) = threads - Cardinality(Aborted)
    /\ threadsActive = threads

\* C16: a co-routine has a timer armed only while it is suspended in a
\* processing step: none between steps, none after it has ended.
C16_NoTimerOutsideStep ==
    IsSelfService =>
        \A i \in 1..Len(coroutines) :
            coroutines[i].pc # "process" => timers[i].phase = "none"

C19_LaneIdsDistinct ==
    IsSelfService =>
        \A i, j \in Running :
            /\ coroutines[i].threadId \in 0..(threads - 1)
            /\ i # j => coroutines[i].threadId # coroutines[j].threadId

IsArrayCall == impl \in ArrayImpls /\ asyncCall.outer # "none"
NoFnFailed == \A j \in 1..Len(asyncCall.workPromises) : asyncCall.workPromises[j].pc # "failed"
InFlight == {j \in 1..Len(asyncCall.workPromises) : asyncCall.workPromises[j].pc = "fn"}
Min(a, b) == IF a < b THEN a ELSE b

\* C20: in a call on an array of length n with option threads = t where no fn
\* call has failed, fn is never called twice for an index, at most min(n, t)
\* fn calls are in flight, and when the call has resolved fn was called once
\* for every index, every one of these calls has settled and, for asyncMap,
\* entry i of the result is what fn(array[i]) resolved with.
C20_EveryIndexOnce ==
    (IsArrayCall /\ NoFnFailed) =>
        /\ \A i \in 1..asyncCall.itemsNum : asyncCall.fnCalls[i] <= 1
        /\ Cardinality(InFlight) <= Min(asyncCall.itemsNum, asyncCall.option)
        /\ asyncCall.outer = "resolved" =>
               \A i \in 1..asyncCall.itemsNum :
                   /\ asyncCall.fnCalls[i] = 1
                   /\ asyncCall.results[i] # 0
                   /\ impl = "asyncMap" => asyncCall.ret[i] = asyncCall.results[i]
====
